---- MODULE Spec2Model ----
(***************************************************************************)
(* A model of the Detective Conan archive pipeline                         *)
(* (src/source/detective_conan_archive.py): filename classification,       *)
(* episode extraction, subtitle lookup, per-episode policy resolution,     *)
(* output naming, the ffmpeg command built by mux_subtitles_advanced, and  *)
(* process_episode / process_season over a season directory.               *)
(*                                                                         *)
(* File names are TLA+ strings; substring tests and the regular            *)
(* expressions of the source are evaluated character by character.         *)
(* Python dicts are functions whose DOMAIN is the set of keys present.     *)
(* Path.rename and shutil.move replace an existing destination (os.rename  *)
(* / os.replace semantics); filesystem calls other than the external       *)
(* ffs / ffmpeg processes do not raise.                                    *)
(***************************************************************************)
EXTENDS Integers, Sequences, FiniteSets, TLC

VARIABLES
    CONFIG,         \* the module-level CONFIG dict
    season_dir,     \* files of the season directory: name -> container
    fan_subs_dir,   \* names of the files present under DIRECTORIES['fan_subs_dir']
    bb_subs_dir,    \* names of the files present under DIRECTORIES['bb_subs_dir']
    temp_dir,       \* files of DIRECTORIES['temp_dir']: name -> content
    pc,             \* position of process_season: "scan", "loop", "done" ("calls": no season run)
    video_files,    \* process_season's sorted list of <<file name, ep_num>> still to process
    success_count,  \* process_season's counters
    fail_count,
    last            \* the last call made: its function, arguments, result and effects

vars == <<CONFIG, season_dir, fan_subs_dir, bb_subs_dir, temp_dir, pc,
          video_files, success_count, fail_count, last>>

-----------------------------------------------------------------------------
(* Bounds and program constants *)

\* Largest number of files placed in the season directory
MaxFiles == 2

\* Highest episode number of the series (the single-episode harness's range check)
MaxEpisode == 1132

\* Python's None for an Optional[int]
NoEpisode == -1

\* Python's None for an Optional[Path] / a missing dict value
None == "<None>"

-----------------------------------------------------------------------------
(* Strings *)

Digits == {"0", "1", "2", "3", "4", "5", "6", "7", "8", "9"}

DigitVal(c) ==
    CASE c = "0" -> 0 [] c = "1" -> 1 [] c = "2" -> 2 [] c = "3" -> 3
      [] c = "4" -> 4 [] c = "5" -> 5 [] c = "6" -> 6 [] c = "7" -> 7
      [] c = "8" -> 8 [] c = "9" -> 9

\* int(s) for a string of decimal digits
RECURSIVE ToInt(_)
ToInt(s) ==
    IF Len(s) = 0 THEN 0
    ELSE 10 * ToInt(SubSeq(s, 1, Len(s) - 1)) + DigitVal(SubSeq(s, Len(s), Len(s)))

\* f"{n:04d}" for n >= 0
Pad4(n) ==
    IF n < 10 THEN "000" \o ToString(n)
    ELSE IF n < 100 THEN "00" \o ToString(n)
    ELSE IF n < 1000 THEN "0" \o ToString(n)
    ELSE ToString(n)

\* s[i:].startswith(p), i counted from 1
StartsAt(p, s, i) ==
    /\ i >= 1
    /\ i + Len(p) - 1 <= Len(s)
    /\ SubSeq(s, i, i + Len(p) - 1) = p

\* p in s
Contains(p, s) == \E i \in 1..(Len(s) - Len(p) + 1) : StartsAt(p, s, i)

\* s[i:i+k] is k decimal digits
DigitsAt(s, i, k) ==
    /\ i + k - 1 <= Len(s)
    /\ \A j \in i..(i + k - 1) : SubSeq(s, j, j) \in Digits

SetMin(S) == CHOOSE x \in S : \A y \in S : x <= y
SetMax(S) == CHOOSE x \in S : \A y \in S : x >= y

\* A pattern  <pre>(\d{lo,hi})<suf>  of extract_episode_number
Pattern(pre, lo, hi, suf) == [pre |-> pre, lo |-> lo, hi |-> hi, suf |-> suf]

\* The digit-run lengths with which pattern p matches s at position i
MatchLens(p, s, i) ==
    IF ~StartsAt(p.pre, s, i) THEN {}
    ELSE {k \in p.lo..p.hi :
             /\ DigitsAt(s, i + Len(p.pre), k)
             /\ StartsAt(p.suf, s, i + Len(p.pre) + k)}

\* re.search(p, s): the leftmost match, its digit group taken greedily;
\* the group as an int, or NoEpisode when nothing matches
ReSearch(p, s) ==
    LET pos == {i \in 1..Len(s) : MatchLens(p, s, i) # {}}
    IN  IF pos = {} THEN NoEpisode
        ELSE LET i == SetMin(pos)
                 k == SetMax(MatchLens(p, s, i))
             IN  ToInt(SubSeq(s, i + Len(p.pre), i + Len(p.pre) + k - 1))

-----------------------------------------------------------------------------
(* detect_source_format, extract_episode_number *)

SourceFormats ==
    {"erai-raws", "reghost-fabre", "crunchyroll", "fabre-remastered", "fabre",
     "bilibili", "unknown"}

detect_source_format(filename) ==
    IF Contains("[Erai-raws] Detective Conan -", filename)
          /\ Contains("[Multiple Subtitle]", filename)
    THEN "erai-raws"
    ELSE IF Contains("[RAW Reghost-Fabre]", filename) THEN "reghost-fabre"
    ELSE IF Contains("[Crunchyroll]", filename) THEN "crunchyroll"
    ELSE IF Contains("[Fabre-RAW] Detective Conan Remastered", filename)
    THEN "fabre-remastered"
    ELSE IF Contains("[Fabre-RAW] Detective Conan", filename) THEN "fabre"
    ELSE IF Contains("Bilibili", filename) \/ Contains("bilibili", filename)
    THEN "bilibili"
    ELSE "unknown"

\* The ordered pattern list of extract_episode_number
patterns ==
    << Pattern("[Erai-raws] Detective Conan - ", 4, 4, " [1080p][Multiple Subtitle]"),
       Pattern("[RAW Reghost-Fabre] Detective Conan ", 1, 4, ""),
       Pattern("[Crunchyroll] Detective Conan - ", 1, 4, " [Multi-Sub]"),
       Pattern("[Fabre-RAW] Detective Conan Remastered ", 4, 4, ""),
       Pattern("[Fabre-RAW] Detective Conan ", 4, 4, ""),
       Pattern("[Erai-raws] Detective Conan - ", 4, 4, ""),
       Pattern("Detective Conan ", 4, 4, "") >>

extract_episode_number(filename) ==
    LET hits == {n \in 1..Len(patterns) : ReSearch(patterns[n], filename) # NoEpisode}
    IN  IF hits = {} THEN NoEpisode
        ELSE ReSearch(patterns[SetMin(hits)], filename)

-----------------------------------------------------------------------------
(* Python dicts *)

\* d.get(k, default)
Get(d, k, default) == IF k \in DOMAIN d THEN d[k] ELSE default

\* d[k] = v
Put(d, k, v) == [x \in (DOMAIN d) \cup {k} |-> IF x = k THEN v ELSE d[x]]

-----------------------------------------------------------------------------
(* get_subtitle_path *)

FanSubName(ep_num) == Pad4(ep_num) \o ".ass"

BBRemasteredName(ep_num) ==
    "[Fabre-RAW] Detective Conan Remastered " \o Pad4(ep_num) \o " [NetflixJP] [1080p].srt"

BBPlainName(ep_num) ==
    "[Fabre-RAW] Detective Conan " \o Pad4(ep_num) \o " [NetflixJP] [1080p].srt"

\* Mutant: the plain bb variant is looked up through episode 753
BBSubName_Upto753(ep_num) ==
    IF 124 <= ep_num /\ ep_num <= 173 THEN BBRemasteredName(ep_num)
    ELSE IF 174 <= ep_num /\ ep_num <= 753 THEN BBPlainName(ep_num)
    ELSE None

\* The bb file name get_subtitle_path computes, None outside its ranges
BBSubName(ep_num) ==
    IF 124 <= ep_num /\ ep_num <= 173 THEN BBRemasteredName(ep_num)
    ELSE IF 174 <= ep_num /\ ep_num <= 723 THEN BBPlainName(ep_num)
    ELSE None

\* The name of the subtitle file found, or None; fan_dir and bb_dir are the
\* names present in the two subtitle directories
get_subtitle_path(ep_num, sub_type, fan_dir, bb_dir) ==
    IF sub_type = "fan"
    THEN IF 1 <= ep_num /\ ep_num <= 757 /\ FanSubName(ep_num) \in fan_dir
         THEN FanSubName(ep_num)
         ELSE None
    ELSE IF sub_type = "bb"
    THEN IF BBSubName(ep_num) # None /\ BBSubName(ep_num) \in bb_dir
         THEN BBSubName(ep_num)
         ELSE None
    ELSE None

-----------------------------------------------------------------------------
(* get_episode_config *)

\* The policy returned for erai-raws episodes 1-123
\* Mutant: the Erai-raws 1-123 policy without its rename_only switch
EraiRenameOnly_NoSwitch ==
    [output_format |-> "remastered",
     keep_existing_subs |-> TRUE, add_fan_subs |-> FALSE, add_bb_subs |-> FALSE]

EraiRenameOnly ==
    [rename_only |-> TRUE, output_format |-> "remastered",
     keep_existing_subs |-> TRUE, add_fan_subs |-> FALSE, add_bb_subs |-> FALSE]

\* The hardcoded defaults handed to CONFIG.get for each range
DefaultEpisodes_1_123 ==
    [keep_existing_subs |-> TRUE, add_fan_subs |-> TRUE, add_bb_subs |-> FALSE]

\* Mutant: the 124-723 default drops the embedded subtitles
DefaultEpisodes_124_723_DropExisting ==
    [keep_existing_subs |-> FALSE, add_fan_subs |-> TRUE, add_bb_subs |-> TRUE]

DefaultEpisodes_124_723 ==
    [keep_existing_subs |-> TRUE, add_fan_subs |-> TRUE, add_bb_subs |-> TRUE]

\* Mutant: the 724-753 default forgets the relabelling flag
DefaultEpisodes_724_753_NoRename ==
    [keep_existing_subs |-> TRUE, add_fan_subs |-> TRUE, add_bb_subs |-> FALSE]

DefaultEpisodes_724_753 ==
    [keep_existing_subs |-> TRUE, add_fan_subs |-> TRUE, add_bb_subs |-> FALSE,
     rename_existing_bb_track |-> TRUE]

DefaultEpisodes_754_1132 ==
    [keep_existing_subs |-> TRUE, add_fan_subs |-> TRUE, add_bb_subs |-> FALSE]

\* The CONFIG key of the range an episode number falls in, as the if/elif chain
\* of get_episode_config decides it (the else branch takes everything left)
RangeKey(ep_num) ==
    IF 1 <= ep_num /\ ep_num <= 123 THEN "episodes_1_123"
    ELSE IF 124 <= ep_num /\ ep_num <= 723 THEN "episodes_124_723"
    ELSE IF 724 <= ep_num /\ ep_num <= 753 THEN "episodes_724_753"
    ELSE "episodes_754_1132"

RangeDefault(key) ==
    CASE key = "episodes_1_123" -> DefaultEpisodes_1_123
      [] key = "episodes_124_723" -> DefaultEpisodes_124_723
      [] key = "episodes_724_753" -> DefaultEpisodes_724_753
      [] key = "episodes_754_1132" -> DefaultEpisodes_754_1132

\* The 724-753 branch: config is CONFIG's own dict when the key is present (so the
\* assignment for bilibili writes into CONFIG), a fresh default dict otherwise
Branch_724_753(source_format, cfg) ==
    LET config == Get(cfg, "episodes_724_753", DefaultEpisodes_724_753)
    IN  IF source_format = "bilibili"
        THEN LET changed == Put(config, "rename_existing_bb_track", FALSE)
             IN  [ret |-> changed,
                  config |-> IF "episodes_724_753" \in DOMAIN cfg
                             THEN Put(cfg, "episodes_724_753", changed)
                             ELSE cfg]
        ELSE [ret |-> config, config |-> cfg]

\* Mutant: a bilibili file resolves to a skip policy before any range is looked at
get_episode_config_BilibiliSkip(ep_num, source_format, cfg) ==
    IF source_format = "bilibili"
    THEN [ret |-> [skip |-> TRUE, reason |-> "embedded subs"], config |-> cfg]
    ELSE IF source_format = "erai-raws" /\ 1 <= ep_num /\ ep_num <= 123
    THEN [ret |-> EraiRenameOnly, config |-> cfg]
    ELSE IF RangeKey(ep_num) = "episodes_724_753"
    THEN Branch_724_753(source_format, cfg)
    ELSE [ret |-> Get(cfg, RangeKey(ep_num), RangeDefault(RangeKey(ep_num))),
          config |-> cfg]

\* get_episode_config(ep_num, source_format) under CONFIG = cfg:
\* ret is the dict returned, config is CONFIG after the call
get_episode_config(ep_num, source_format, cfg) ==
    IF source_format = "erai-raws" /\ 1 <= ep_num /\ ep_num <= 123
    THEN [ret |-> EraiRenameOnly, config |-> cfg]
    ELSE IF RangeKey(ep_num) = "episodes_724_753"
    THEN Branch_724_753(source_format, cfg)
    ELSE [ret |-> Get(cfg, RangeKey(ep_num), RangeDefault(RangeKey(ep_num))),
          config |-> cfg]

-----------------------------------------------------------------------------
(* get_output_filename *)

RemasteredName(ep_num) == "Detective Conan Remastered " \o Pad4(ep_num) \o " [1080p].mkv"

Name480p(ep_num) == "Detective Conan " \o Pad4(ep_num) \o " [480p].mkv"

\* Mutant: the source-derived default is consulted before output_format
get_output_filename_SourceFirst(ep_num, source_format, ep_config) ==
    LET output_format == Get(ep_config, "output_format", None)
    IN  IF source_format = "reghost-fabre" THEN Name480p(ep_num)
        ELSE IF output_format = "remastered" THEN RemasteredName(ep_num)
        ELSE IF output_format = "480p" THEN Name480p(ep_num)
        ELSE RemasteredName(ep_num)

get_output_filename(ep_num, source_format, ep_config) ==
    LET output_format == Get(ep_config, "output_format", None)
    IN  IF output_format = "remastered" THEN RemasteredName(ep_num)
        ELSE IF output_format = "480p" THEN Name480p(ep_num)
        ELSE IF source_format = "reghost-fabre" THEN Name480p(ep_num)
        ELSE IF source_format = "erai-raws" THEN RemasteredName(ep_num)
        ELSE RemasteredName(ep_num)

-----------------------------------------------------------------------------
(* Files *)

\* str(path) of a file of the season directory, the temp directory
SeasonPath(name) == "Season 01/" \o name
TempPath(name) == "temp_processing/" \o name

FFMPEG_PATH == "ffmpeg"

\* A subtitle stream of a container: where it came from, and its metadata
Stream(origin, title, language) ==
    [origin |-> origin, title |-> title, language |-> language]

\* A video container: its video/audio essence and its subtitle streams, in order
Container(video, subs) == [kind |-> "mkv", video |-> video, subs |-> subs, complete |-> TRUE]

\* What a failed or killed ffmpeg may leave at its output path
PartialContainer(video) == [kind |-> "mkv", video |-> video, subs |-> <<>>, complete |-> FALSE]

\* A subtitle file: the asset it was made from, and whether ffs retimed it
SubFile(origin, synced) == [kind |-> "sub", origin |-> origin, synced |-> synced]

\* The files ffmpeg can open, by path
FsView(season, temp) ==
    [p \in {SeasonPath(n) : n \in DOMAIN season} \cup {TempPath(n) : n \in DOMAIN temp} |->
        IF \E n \in DOMAIN season : p = SeasonPath(n)
        THEN season[CHOOSE n \in DOMAIN season : p = SeasonPath(n)]
        ELSE temp[CHOOSE n \in DOMAIN temp : p = TempPath(n)]]

\* Path.rename / shutil.move within or into a directory: the destination is replaced
Rename(dir, from, to) ==
    [n \in ((DOMAIN dir) \ {from}) \cup {to} |-> IF n = to THEN dir[from] ELSE dir[n]]

Remove(dir, name) == [n \in (DOMAIN dir) \ {name} |-> dir[n]]

-----------------------------------------------------------------------------
(* mux_subtitles_advanced: the command *)

\* The two metadata arguments pairs given to one new output subtitle stream
TrackMetadata(subtitle_index, label) ==
    << "-metadata:s:s:" \o ToString(subtitle_index), "language=eng",
       "-metadata:s:s:" \o ToString(subtitle_index), "title=" \o label >>

\* Mutant: new subtitle streams are always numbered from 0
FirstSubtitleIndex_Zero(keep_existing) == 0

\* The index given to the first new subtitle stream
FirstSubtitleIndex(keep_existing) == IF keep_existing THEN 1 ELSE 0

\* The parts of the ffmpeg command, as mux_subtitles_advanced assembles them.
\* fan_sub_path and bb_sub_path are names in the temp directory, or None;
\* temp is the temp directory (for Path.exists)
MuxPlan(video_path, fan_sub_path, bb_sub_path, output_path, ep_config, cfg, temp) ==
    LET keep_existing == Get(ep_config, "keep_existing_subs", TRUE)
        rename_existing == Get(ep_config, "rename_existing_bb_track", FALSE)
        labels == Get(cfg, "subtitle_labels", << >>)
        bb_label == Get(labels, "bb_subs", "BB Subs [English]")
        fan_label == Get(labels, "fan_subs", "Fan Subs [English]")
        maps0 == << "-map", "0:v", "-map", "0:a" >>
                   \o (IF keep_existing THEN << "-map", "0:s?" >> ELSE << >>)
        meta0 == IF keep_existing /\ rename_existing
                 THEN TrackMetadata(0, bb_label) ELSE << >>
        add_fan == /\ fan_sub_path # None
                   /\ fan_sub_path \in DOMAIN temp
                   /\ Get(ep_config, "add_fan_subs", TRUE)
        input_count0 == 1
        input_count1 == IF add_fan THEN input_count0 + 1 ELSE input_count0
        subtitle_index0 == FirstSubtitleIndex(keep_existing)
        subtitle_index1 == IF add_fan THEN subtitle_index0 + 1 ELSE subtitle_index0
        inputs1 == IF add_fan THEN << "-i", TempPath(fan_sub_path) >> ELSE << >>
        maps1 == maps0 \o (IF add_fan THEN << "-map", ToString(input_count0) \o ":s" >> ELSE << >>)
        meta1 == meta0 \o (IF add_fan THEN TrackMetadata(subtitle_index0, fan_label)
                           ELSE << >>)
        add_bb == /\ bb_sub_path # None
                  /\ bb_sub_path \in DOMAIN temp
                  /\ Get(ep_config, "add_bb_subs", TRUE)
        inputs2 == inputs1 \o (IF add_bb THEN << "-i", TempPath(bb_sub_path) >> ELSE << >>)
        maps2 == maps1 \o (IF add_bb THEN << "-map", ToString(input_count1) \o ":s" >>
                           ELSE << >>)
        meta2 == meta1 \o (IF add_bb THEN TrackMetadata(subtitle_index1, bb_label)
                           ELSE << >>)
    IN  [additional_inputs |-> inputs2,
         output_maps |-> maps2,
         metadata |-> meta2,
         cmd |-> << FFMPEG_PATH, "-i", SeasonPath(video_path) >>
                   \o inputs2 \o maps2 \o meta2
                   \o << "-c:v", "copy", "-c:a", "copy", "-c:s", "copy", "-y" >>
                   \o << TempPath(output_path) >>]

-----------------------------------------------------------------------------
(* ffmpeg, as far as the command line above uses it *)

\* The arguments that follow each occurrence of flag, in order
ArgsOf(cmd, flag) ==
    LET at == {i \in 1..(Len(cmd) - 1) : cmd[i] = flag}
        RECURSIVE Collect(_)
        Collect(i) ==
            IF i > Len(cmd) - 1 THEN << >>
            ELSE IF i \in at THEN << cmd[i + 1] >> \o Collect(i + 2)
            ELSE Collect(i + 1)
    IN  Collect(1)

\* The position of the first ch in s, 0 when there is none
IndexOf(ch, s) ==
    LET at == {i \in 1..Len(s) : SubSeq(s, i, i) = ch}
    IN  IF at = {} THEN 0 ELSE SetMin(at)

\* The subtitle streams of an input file
SubtitleStreams(file) ==
    IF file.kind = "mkv" THEN file.subs ELSE << Stream(file.origin, "", "") >>

\* The subtitle streams one -map argument selects: "<input>:s" or "<input>:s?"
\* (the video and audio maps select none)
MappedStreams(map, inputs, fs) ==
    LET colon == IndexOf(":", map)
        input == ToInt(SubSeq(map, 1, colon - 1))
        what == SubSeq(map, colon + 1, Len(map))
    IN  IF what \in {"s", "s?"} /\ input < Len(inputs) /\ inputs[input + 1] \in DOMAIN fs
        THEN SubtitleStreams(fs[inputs[input + 1]])
        ELSE << >>

RECURSIVE AllMapped(_, _, _)
AllMapped(maps, inputs, fs) ==
    IF maps = << >> THEN << >>
    ELSE MappedStreams(Head(maps), inputs, fs) \o AllMapped(Tail(maps), inputs, fs)

\* One "-metadata:s:s:<n> key=value" applied to the output subtitle streams;
\* a stream specifier that matches no stream changes nothing
SetMetadata(streams, spec, kv) ==
    LET n == ToInt(SubSeq(spec, Len("-metadata:s:s:") + 1, Len(spec)))
        eq == IndexOf("=", kv)
        key == SubSeq(kv, 1, eq - 1)
        value == SubSeq(kv, eq + 1, Len(kv))
    IN  IF n + 1 > Len(streams) THEN streams
        ELSE IF key = "title" THEN [streams EXCEPT ![n + 1].title = value]
        ELSE IF key = "language" THEN [streams EXCEPT ![n + 1].language = value]
        ELSE streams

RECURSIVE ApplyMetadata(_, _, _)
ApplyMetadata(streams, cmd, i) ==
    IF i > Len(cmd) - 1 THEN streams
    ELSE IF StartsAt("-metadata:s:s:", cmd[i], 1)
    THEN ApplyMetadata(SetMetadata(streams, cmd[i], cmd[i + 1]), cmd, i + 2)
    ELSE ApplyMetadata(streams, cmd, i + 1)

\* Whether every input of the command can be opened
InputsExist(cmd, fs) ==
    \A i \in 1..Len(ArgsOf(cmd, "-i")) : ArgsOf(cmd, "-i")[i] \in DOMAIN fs

\* The container a successful run of cmd writes: the first input's video and
\* audio, the mapped subtitle streams in map order, then the metadata
FfmpegOutput(cmd, fs) ==
    LET inputs == ArgsOf(cmd, "-i")
    IN  Container(fs[inputs[1]].video,
                  ApplyMetadata(AllMapped(ArgsOf(cmd, "-map"), inputs, fs), cmd, 1))

\* How a run of ffmpeg under subprocess.run can end
MuxOutcomes == {"ok", "nonzero", "timeout", "exception"}

-----------------------------------------------------------------------------
(* sync_subtitle, mux_subtitles_advanced *)

\* sync_subtitle(video_path, subtitle_path, output_path): ffs writes the retimed
\* subtitle, or (failure, timeout, exception) the original is copied; either
\* way output_path holds a subtitle file.  synced is how the ffs run ended
sync_subtitle(subtitle_path, output_path, temp, synced) ==
    [ret |-> synced, temp |-> Put(temp, output_path, SubFile(subtitle_path, synced))]

\* mux_subtitles_advanced: outcome is how the ffmpeg run ends, partial whether a
\* run that fails or is killed leaves a file at the output path
mux_subtitles_advanced(video_path, fan_sub_path, bb_sub_path, output_path, ep_config, cfg, season, temp, outcome, partial) ==
    LET plan == MuxPlan(video_path, fan_sub_path, bb_sub_path, output_path, ep_config,
                        cfg, temp)
        fs == FsView(season, temp)
        ended == IF outcome = "ok" /\ ~InputsExist(plan.cmd, fs) THEN "nonzero" ELSE outcome
    IN  IF ended = "ok"
        THEN [ret |-> TRUE, plan |-> plan, ended |-> ended,
              temp |-> Put(temp, output_path, FfmpegOutput(plan.cmd, fs))]
        ELSE IF ended \in {"nonzero", "timeout"}
        THEN [ret |-> FALSE, plan |-> plan, ended |-> ended,
              temp |-> IF partial /\ video_path \in DOMAIN season
                       THEN Put(temp, output_path, PartialContainer(season[video_path].video))
                       ELSE temp]
        ELSE [ret |-> FALSE, plan |-> plan, ended |-> ended, temp |-> temp]

-----------------------------------------------------------------------------
(* process_episode *)

NoPlan == [additional_inputs |-> << >>, output_maps |-> << >>, metadata |-> << >>,
           cmd |-> << >>]

\* The result of process_episode that every exit shares: what was decided
\* before any branch
Outcome(ret, ops, cfg, season, temp, source_format, ep_config, output_name) ==
    [ret |-> ret, ops |-> ops, CONFIG |-> cfg, season_dir |-> season, temp_dir |-> temp,
     source_format |-> source_format, ep_config |-> ep_config,
     output_name |-> output_name, fan_sub_original |-> None, bb_sub_original |-> None,
     mux |-> "none", plan |-> NoPlan]

\* "if video_path.name != output_name: video_path.rename(output_path); return True":
\* a rename of a file that is gone raises, and process_episode returns False
RenameAndReturn(ops, cfg, season, temp, video, source_format, ep_config, output_name) ==
    IF video = output_name
    THEN Outcome(TRUE, ops, cfg, season, temp, source_format, ep_config, output_name)
    ELSE IF video \in DOMAIN season
    THEN Outcome(TRUE, ops \cup {"rename"}, cfg, Rename(season, video, output_name), temp,
                 source_format, ep_config, output_name)
    ELSE Outcome(FALSE, ops \cup {"rename"}, cfg, season, temp,
                 source_format, ep_config, output_name)

\* Mutant: the dubbed-episode check is never taken
SkipDubbed_Never(cfg, ep_num) == FALSE

\* The dubbed-episode check of process_episode
SkipDubbed(cfg, ep_num) ==
    Get(cfg, "skip_dubbed_episodes", FALSE) /\ ep_num \in Get(cfg, "dubbed_episodes", {})

\* Whether process_episode gives up for want of subtitles: nothing located
NothingToAdd(fan_sub_original, bb_sub_original) ==
    fan_sub_original = None /\ bb_sub_original = None

\* Mutant: the finalize step only looks for the temp container
Finalizes_IgnoringSuccess(success, temp_output_exists) == temp_output_exists

\* Whether process_episode finalizes after the mux
Finalizes(success, temp_output_exists) == success /\ temp_output_exists

\* Lines 599-643: sync what was located, mux into temp_<ep>.mkv, finalize
SyncMuxFinalize(video, ep_num, cfg, season, temp, source_format, ep_config, output_name, fan_sub_original, bb_sub_original, ops, env) ==
    LET fan_sub_synced == IF fan_sub_original # None
                          THEN Pad4(ep_num) \o "_fan_synced.ass" ELSE None
        bb_sub_synced == IF bb_sub_original # None
                         THEN Pad4(ep_num) \o "_bb_synced.srt" ELSE None
        temp1 == IF fan_sub_original # None
                 THEN sync_subtitle(fan_sub_original, fan_sub_synced, temp, env.sync_fan).temp
                 ELSE temp
        temp2 == IF bb_sub_original # None
                 THEN sync_subtitle(bb_sub_original, bb_sub_synced, temp1, env.sync_bb).temp
                 ELSE temp1
        temp_output == "temp_" \o Pad4(ep_num) \o ".mkv"
        m == mux_subtitles_advanced(video, fan_sub_synced, bb_sub_synced, temp_output,
                                    ep_config, cfg, season, temp2, env.mux, env.partial)
        ops1 == ops \cup (IF fan_sub_original # None THEN {"sync_fan"} ELSE {})
                    \cup (IF bb_sub_original # None THEN {"sync_bb"} ELSE {})
                    \cup {"mux"}
        base == [Outcome(FALSE, ops1, cfg, season, m.temp, source_format, ep_config,
                         output_name)
                    EXCEPT !.fan_sub_original = fan_sub_original,
                           !.bb_sub_original = bb_sub_original,
                           !.mux = m.ended, !.plan = m.plan]
    IN  IF Finalizes(m.ret, temp_output \in DOMAIN m.temp)
        THEN LET unlinked == IF video \in DOMAIN season THEN Remove(season, video)
                             ELSE season
                 moved == Put(unlinked, output_name, m.temp[temp_output])
                 temp3 == Remove(m.temp, temp_output)
                 temp4 == IF fan_sub_synced # None /\ fan_sub_synced \in DOMAIN temp3
                          THEN Remove(temp3, fan_sub_synced) ELSE temp3
                 temp5 == IF bb_sub_synced # None /\ bb_sub_synced \in DOMAIN temp4
                          THEN Remove(temp4, bb_sub_synced) ELSE temp4
             IN  [base EXCEPT !.ret = TRUE, !.ops = ops1 \cup {"unlink", "move"},
                              !.season_dir = moved, !.temp_dir = temp5]
        ELSE base

\* process_episode(video_path, ep_num) run on the given CONFIG and directories;
\* env holds how the external ffs and ffmpeg runs end.  ops names the steps
\* taken: locate_fan, locate_bb, sync_fan, sync_bb, mux, unlink, move, rename
process_episode(video, ep_num, cfg, season, temp, fan_dir, bb_dir, env) ==
    LET source_format == detect_source_format(video)
        resolved == get_episode_config(ep_num, source_format, cfg)
        ep_config == resolved.ret
        cfg1 == resolved.config
        output_name == get_output_filename(ep_num, source_format, ep_config)
        want_fan == Get(ep_config, "add_fan_subs", TRUE)
        want_bb == Get(ep_config, "add_bb_subs", TRUE)
        fan_sub_original == IF want_fan
                            THEN get_subtitle_path(ep_num, "fan", fan_dir, bb_dir)
                            ELSE None
        bb_sub_original == IF want_bb
                           THEN get_subtitle_path(ep_num, "bb", fan_dir, bb_dir)
                           ELSE None
        ops == (IF want_fan THEN {"locate_fan"} ELSE {})
                 \cup (IF want_bb THEN {"locate_bb"} ELSE {})
    IN  IF SkipDubbed(cfg1, ep_num)
        THEN RenameAndReturn({}, cfg1, season, temp, video, source_format, ep_config,
                             output_name)
        ELSE IF Get(ep_config, "rename_only", FALSE)
        THEN RenameAndReturn({}, cfg1, season, temp, video, source_format, ep_config,
                             output_name)
        ELSE IF NothingToAdd(fan_sub_original, bb_sub_original)
        THEN IF Get(ep_config, "keep_existing_subs", TRUE)
             THEN RenameAndReturn(ops, cfg1, season, temp, video, source_format,
                                  ep_config, output_name)
             ELSE Outcome(FALSE, ops, cfg1, season, temp, source_format, ep_config,
                          output_name)
        ELSE SyncMuxFinalize(video, ep_num, cfg1, season, temp, source_format, ep_config,
                             output_name, fan_sub_original, bb_sub_original, ops, env)

-----------------------------------------------------------------------------
(* Configurations and directory contents the runs start from *)

\* get_default_config, as far as the modelled functions read it
DefaultConfig ==
    [skip_dubbed_episodes |-> FALSE,
     dubbed_episodes |-> {},
     subtitle_labels |-> [fan_subs |-> "Fan Subs [English]", bb_subs |-> "BB Subs [English]"]]

\* Range overrides a config.yaml may hold
OverrideDropExisting ==
    [keep_existing_subs |-> FALSE, add_fan_subs |-> TRUE, add_bb_subs |-> TRUE]

OverrideKeepOnly ==
    [keep_existing_subs |-> TRUE, add_fan_subs |-> TRUE, add_bb_subs |-> FALSE]

OverrideRename ==
    [keep_existing_subs |-> TRUE, add_fan_subs |-> FALSE, add_bb_subs |-> FALSE,
     rename_existing_bb_track |-> TRUE]

RangeKeys == {"episodes_1_123", "episodes_124_723", "episodes_724_753", "episodes_754_1132"}

\* CONFIG as load_config leaves it for a config.yaml holding the given overrides
ConfigWith(overrides) ==
    [k \in (DOMAIN DefaultConfig) \cup (DOMAIN overrides) |->
        IF k \in DOMAIN overrides THEN overrides[k] ELSE DefaultConfig[k]]

NoOverrides == [k \in {} |-> {}]

OneOverride(key, policy) == [k \in {key} |-> policy]

\* Episode numbers at and around the range limits of the source
EpSamples == {1, 50, 123, 124, 150, 173, 174, 200, 723, 724, 730, 753, 754, 757, 758, 800, 1132}

Idle == [fn |-> "none"]

EmptyDir == [n \in {} |-> {}]

-----------------------------------------------------------------------------
(* Calls of get_episode_config, one after another, on a shared CONFIG *)

ResolveConfigs ==
    {ConfigWith(NoOverrides)}
      \cup {ConfigWith(OneOverride(k, OverrideDropExisting)) : k \in RangeKeys}
      \cup {ConfigWith(OneOverride("episodes_124_723", OverrideRename)),
            ConfigWith(OneOverride("episodes_724_753", OverrideKeepOnly)),
            ConfigWith(OneOverride("episodes_724_753", OverrideRename)),
            ConfigWith([k \in RangeKeys |-> OverrideKeepOnly])}

InitResolve ==
    /\ CONFIG \in ResolveConfigs
    /\ season_dir = EmptyDir
    /\ fan_subs_dir = {}
    /\ bb_subs_dir = {}
    /\ temp_dir = EmptyDir
    /\ pc = "calls"
    /\ video_files = << >>
    /\ success_count = 0
    /\ fail_count = 0
    /\ last = Idle

\* A caller invokes get_episode_config(ep_num, source_format)
CallResolve ==
    /\ pc = "calls"
    /\ last = Idle
    /\ \E ep_num \in 1..MaxEpisode, source_format \in SourceFormats :
          LET r == get_episode_config(ep_num, source_format, CONFIG)
          IN  /\ last' = [fn |-> "get_episode_config", ep_num |-> ep_num,
                          source_format |-> source_format, before |-> CONFIG,
                          ret |-> r.ret]
              /\ CONFIG' = r.config
    /\ UNCHANGED <<season_dir, fan_subs_dir, bb_subs_dir, temp_dir, pc, video_files,
                   success_count, fail_count>>

\* The caller is done with the result
Return ==
    /\ pc = "calls"
    /\ last # Idle
    /\ last' = Idle
    /\ UNCHANGED <<CONFIG, season_dir, fan_subs_dir, bb_subs_dir, temp_dir, pc,
                   video_files, success_count, fail_count>>

NextResolve == CallResolve \/ Return

SpecResolve == InitResolve /\ [][NextResolve]_vars

-----------------------------------------------------------------------------
(* Properties of get_episode_config (SpecResolve) *)

Resolved == last.fn = "get_episode_config"

\* The range of the resolved episode has no override in the CONFIG the call saw
NoOverrideSeen == RangeKey(last.ep_num) \notin DOMAIN last.before

In(ep_num, lo, hi) == lo <= ep_num /\ ep_num <= hi

\* C1, as stated: with no override for the range, every episode in [124,753] of a
\* source other than bilibili resolves to keep_existing_subs = false,
\* add_fan_subs = true, add_bb_subs = true.
C1_Stated ==
    (Resolved /\ NoOverrideSeen /\ In(last.ep_num, 124, 753)
        /\ last.source_format # "bilibili")
    => /\ last.ret.keep_existing_subs = FALSE
       /\ last.ret.add_fan_subs = TRUE
       /\ last.ret.add_bb_subs = TRUE

\* C1, amended: with no override for the range and a source other than bilibili,
\* every episode in [124,723] resolves to keep_existing_subs = true,
\* add_fan_subs = true, add_bb_subs = true, and every episode in [724,753] to
\* keep_existing_subs = true, add_fan_subs = true, add_bb_subs = false.
C1_Amended ==
    (Resolved /\ NoOverrideSeen /\ last.source_format # "bilibili")
    => /\ In(last.ep_num, 124, 723)
            => /\ last.ret.keep_existing_subs = TRUE
               /\ last.ret.add_fan_subs = TRUE
               /\ last.ret.add_bb_subs = TRUE
       /\ In(last.ep_num, 724, 753)
            => /\ last.ret.keep_existing_subs = TRUE
               /\ last.ret.add_fan_subs = TRUE
               /\ last.ret.add_bb_subs = FALSE

\* C1 witness: episode 200 of a crunchyroll file resolved without an override
C1_Witness ==
    /\ Resolved
    /\ NoOverrideSeen
    /\ last.ep_num = 200
    /\ last.source_format = "crunchyroll"
    /\ last.ret.keep_existing_subs = TRUE
    /\ last.ret.add_bb_subs = TRUE

HasRenameFlag(policy) == "rename_existing_bb_track" \in DOMAIN policy

\* C3, as stated: every episode in [724,753] of a source other than bilibili
\* resolves to rename_existing_bb_track = true, from the hardcoded default or
\* from an override alike, and outside [724,753] the policy carries no such flag.
C3_Stated ==
    Resolved
    => /\ (In(last.ep_num, 724, 753) /\ last.source_format # "bilibili")
            => /\ HasRenameFlag(last.ret)
               /\ last.ret.rename_existing_bb_track = TRUE
       /\ ~In(last.ep_num, 724, 753) => ~HasRenameFlag(last.ret)

\* C3, amended: for an episode in [724,753] of a source other than bilibili the
\* policy has rename_existing_bb_track = true when it comes from the hardcoded
\* default; when the range has an override the resolver returns that override
\* as CONFIG holds it, flag or no flag; and outside [724,753] the resolver adds
\* no flag: the policy carries one only if the range's override does.
C3_Amended ==
    Resolved
    => LET key == RangeKey(last.ep_num)
           erai == last.source_format = "erai-raws" /\ In(last.ep_num, 1, 123)
       IN  /\ (In(last.ep_num, 724, 753) /\ last.source_format # "bilibili")
                => IF NoOverrideSeen
                   THEN /\ HasRenameFlag(last.ret)
                        /\ last.ret.rename_existing_bb_track = TRUE
                   ELSE last.ret = last.before[key]
           /\ ~In(last.ep_num, 724, 753)
                => (HasRenameFlag(last.ret)
                      <=> (~erai /\ ~NoOverrideSeen /\ HasRenameFlag(last.before[key])))

\* C3 witness: episode 730 of a fabre file resolved from the hardcoded default
C3_Witness ==
    /\ Resolved
    /\ NoOverrideSeen
    /\ last.ep_num = 730
    /\ last.source_format = "fabre"
    /\ last.ret.rename_existing_bb_track = TRUE

\* C4: a call of get_episode_config leaves the configuration, range overrides
\* included, as it found it (so that no call changes what a later call returns).
C4_Stated == Resolved => CONFIG = last.before

-----------------------------------------------------------------------------
(* Calls of detect_source_format, extract_episode_number, get_output_filename *)

\* File names in each release group's naming, the two canonical output forms,
\* and a name with no episode number
NamesOf(ep_num) ==
    {"[Erai-raws] Detective Conan - " \o Pad4(ep_num) \o " [1080p][Multiple Subtitle].mkv",
     "[Erai-raws] Detective Conan - " \o Pad4(ep_num) \o " [1080p].mkv",
     "[RAW Reghost-Fabre] Detective Conan " \o ToString(ep_num) \o ".mkv",
     "[Crunchyroll] Detective Conan - " \o ToString(ep_num) \o " [Multi-Sub].mkv",
     "[Fabre-RAW] Detective Conan Remastered " \o Pad4(ep_num) \o " [NetflixJP] [1080p].mkv",
     "[Fabre-RAW] Detective Conan " \o Pad4(ep_num) \o " [NetflixJP] [1080p].mkv",
     "Detective Conan " \o Pad4(ep_num) \o " [Bilibili].mkv",
     "[bilibili] Detective Conan - " \o ToString(ep_num) \o ".mkv",
     RemasteredName(ep_num),
     Name480p(ep_num),
     "Detective Conan Movie " \o ToString(ep_num) \o ".mkv"}

\* Policies handed to get_output_filename: no output_format, each recognised
\* value, and a value it does not recognise
NamePolicies ==
    {DefaultEpisodes_1_123,
     EraiRenameOnly,
     [keep_existing_subs |-> TRUE, output_format |-> "480p"],
     [keep_existing_subs |-> TRUE, output_format |-> "default"]}

InitNames ==
    /\ CONFIG = DefaultConfig
    /\ season_dir = EmptyDir
    /\ fan_subs_dir = {}
    /\ bb_subs_dir = {}
    /\ temp_dir = EmptyDir
    /\ pc = "calls"
    /\ video_files = << >>
    /\ success_count = 0
    /\ fail_count = 0
    /\ last = Idle

CallDetect ==
    /\ pc = "calls"
    /\ last = Idle
    /\ \E ep_num \in 1..MaxEpisode : \E filename \in NamesOf(ep_num) :
          last' = [fn |-> "detect_source_format", filename |-> filename,
                   ret |-> detect_source_format(filename)]
    /\ UNCHANGED <<CONFIG, season_dir, fan_subs_dir, bb_subs_dir, temp_dir, pc,
                   video_files, success_count, fail_count>>

CallExtract ==
    /\ pc = "calls"
    /\ last = Idle
    /\ \E ep_num \in 0..MaxEpisode : \E filename \in NamesOf(ep_num) :
          last' = [fn |-> "extract_episode_number", filename |-> filename,
                   ret |-> extract_episode_number(filename)]
    /\ UNCHANGED <<CONFIG, season_dir, fan_subs_dir, bb_subs_dir, temp_dir, pc,
                   video_files, success_count, fail_count>>

CallOutputName ==
    /\ pc = "calls"
    /\ last = Idle
    /\ \E ep_num \in 1..MaxEpisode, source_format \in SourceFormats,
          ep_config \in NamePolicies :
          last' = [fn |-> "get_output_filename", ep_num |-> ep_num,
                   source_format |-> source_format, ep_config |-> ep_config,
                   ret |-> get_output_filename(ep_num, source_format, ep_config)]
    /\ UNCHANGED <<CONFIG, season_dir, fan_subs_dir, bb_subs_dir, temp_dir, pc,
                   video_files, success_count, fail_count>>

NextNames == CallDetect \/ CallExtract \/ CallOutputName \/ Return

SpecNames == InitNames /\ [][NextNames]_vars

-----------------------------------------------------------------------------
(* Properties of get_output_filename and detect_source_format (SpecNames) *)

\* The four decimal digits of n < 10000, written out independently of Pad4
FourDigits(n) ==
    ToString(n \div 1000) \o ToString((n \div 100) % 10)
        \o ToString((n \div 10) % 10) \o ToString(n % 10)

RemasteredForm(ep_num) == "Detective Conan Remastered " \o FourDigits(ep_num) \o " [1080p].mkv"

Form480p(ep_num) == "Detective Conan " \o FourDigits(ep_num) \o " [480p].mkv"

\* C8: an explicit output_format decides the form of the output name whatever
\* the source ('remastered': the remastered 1080p form, '480p': the 480p form);
\* with output_format unset, reghost-fabre gives the 480p form and every other
\* source, unknown included, the remastered form.
C8_OutputName ==
    last.fn = "get_output_filename"
    => LET fmt == Get(last.ep_config, "output_format", None)
       IN  /\ fmt = "remastered" => last.ret = RemasteredForm(last.ep_num)
           /\ fmt = "480p" => last.ret = Form480p(last.ep_num)
           /\ "output_format" \notin DOMAIN last.ep_config
                => IF last.source_format = "reghost-fabre"
                   THEN last.ret = Form480p(last.ep_num)
                   ELSE last.ret = RemasteredForm(last.ep_num)

\* C8 witness: an explicit 'remastered' wins over the reghost-fabre default
C8_Witness ==
    /\ last.fn = "get_output_filename"
    /\ last.ep_num = 50
    /\ last.source_format = "reghost-fabre"
    /\ Get(last.ep_config, "output_format", None) = "remastered"
    /\ last.ret = "Detective Conan Remastered 0050 [1080p].mkv"

\* The release group each pattern of extract_episode_number is written for
\* (the last, generic pattern belongs to none)
PatternGroup ==
    << "erai-raws", "reghost-fabre", "crunchyroll", "fabre-remastered", "fabre",
       "erai-raws" >>

\* C10: detect_source_format gives every file name exactly one tag of the
\* enumeration; a name that one of a release group's patterns of
\* extract_episode_number matches gets that group's tag; and a name holding the
\* "[Fabre-RAW] Detective Conan Remastered" marker is never tagged fabre.
C10_Stated ==
    last.fn = "detect_source_format"
    => /\ last.ret \in SourceFormats
       /\ \A n \in 1..Len(PatternGroup) :
             ReSearch(patterns[n], last.filename) # NoEpisode
                => last.ret = PatternGroup[n]
       /\ Contains("[Fabre-RAW] Detective Conan Remastered", last.filename)
             => last.ret # "fabre"

-----------------------------------------------------------------------------
(* Calls of get_subtitle_path on subtitle directories of varying content *)

\* Contents of the fan directory: nothing, or a file for every sampled episode
\* (those past 757 included)
FanLayouts == {{}, {FanSubName(e) : e \in EpSamples}}

\* Contents of the bb directory: nothing, one naming variant for every sampled
\* episode, or both
BBLayouts ==
    {{},
     {BBRemasteredName(e) : e \in EpSamples},
     {BBPlainName(e) : e \in EpSamples},
     {BBRemasteredName(e) : e \in EpSamples} \cup {BBPlainName(e) : e \in EpSamples}}

InitLocate ==
    /\ CONFIG = DefaultConfig
    /\ season_dir = EmptyDir
    /\ fan_subs_dir \in FanLayouts
    /\ bb_subs_dir \in BBLayouts
    /\ temp_dir = EmptyDir
    /\ pc = "calls"
    /\ video_files = << >>
    /\ success_count = 0
    /\ fail_count = 0
    /\ last = Idle

CallLocate ==
    /\ pc = "calls"
    /\ last = Idle
    /\ \E ep_num \in 0..(MaxEpisode + 1), sub_type \in {"fan", "bb"} :
          last' = [fn |-> "get_subtitle_path", ep_num |-> ep_num, sub_type |-> sub_type,
                   ret |-> get_subtitle_path(ep_num, sub_type, fan_subs_dir, bb_subs_dir)]
    /\ UNCHANGED <<CONFIG, season_dir, fan_subs_dir, bb_subs_dir, temp_dir, pc,
                   video_files, success_count, fail_count>>

NextLocate == CallLocate \/ Return

SpecLocate == InitLocate /\ [][NextLocate]_vars

-----------------------------------------------------------------------------
(* Properties of get_subtitle_path (SpecLocate) *)

Located == last.fn = "get_subtitle_path"

FanForm(ep_num) == FourDigits(ep_num) \o ".ass"

BBRemasteredForm(ep_num) ==
    "[Fabre-RAW] Detective Conan Remastered " \o FourDigits(ep_num)
        \o " [NetflixJP] [1080p].srt"

BBPlainForm(ep_num) ==
    "[Fabre-RAW] Detective Conan " \o FourDigits(ep_num) \o " [NetflixJP] [1080p].srt"

\* A fan lookup returns the episode's file exactly when the episode is in
\* [1,757] and the file is on disk
FanLocateRule ==
    (Located /\ last.sub_type = "fan")
    => IF In(last.ep_num, 1, 757) /\ FanForm(last.ep_num) \in fan_subs_dir
       THEN last.ret = FanForm(last.ep_num)
       ELSE last.ret = None

\* A bb lookup over the range [124,hi]: the Remastered name for [124,173], the
\* plain name above, returned exactly when that file is on disk
BBLocateRule(hi) ==
    (Located /\ last.sub_type = "bb")
    => LET name == IF In(last.ep_num, 124, 173) THEN BBRemasteredForm(last.ep_num)
                   ELSE BBPlainForm(last.ep_num)
       IN  IF In(last.ep_num, 124, hi) /\ name \in bb_subs_dir
           THEN last.ret = name
           ELSE last.ret = None

\* C5, as stated: get_subtitle_path returns a path exactly when the episode is
\* in the kind's range (fan [1,757], bb [124,753]) and the computed file exists;
\* the bb name is the Remastered variant iff the episode is in [124,173] and the
\* plain variant for [174,753].
C5_Stated == FanLocateRule /\ BBLocateRule(753)

\* C5, amended: the same with the bb range [124,723]: the plain variant is used
\* for [174,723], and a bb lookup for an episode above 723 returns none.
C5_Amended == FanLocateRule /\ BBLocateRule(723)

\* C5 witness: the Remastered bb file of episode 150 is found
C5_Witness ==
    /\ Located
    /\ last.sub_type = "bb"
    /\ last.ep_num = 150
    /\ last.ret = "[Fabre-RAW] Detective Conan Remastered 0150 [NetflixJP] [1080p].srt"

-----------------------------------------------------------------------------
(* Calls of mux_subtitles_advanced on one episode's files *)

\* Subtitle streams a source file may already hold
EmbeddedSubs ==
    {<< >>,
     << Stream("embedded-0", "English", "eng") >>,
     << Stream("embedded-0", "", "jpn"), Stream("embedded-1", "English", "eng") >>}

MuxVideo == "[Crunchyroll] Detective Conan - 200 [Multi-Sub].mkv"
MuxFanSynced == "0200_fan_synced.ass"
MuxBBSynced == "0200_bb_synced.srt"
MuxTempOutput == "temp_0200.mkv"

\* The temp directory with the synced sidecars named in present
Sidecars(present) ==
    [n \in present |-> IF n = MuxFanSynced THEN SubFile("0200.ass", TRUE)
                       ELSE SubFile(BBPlainName(200), TRUE)]

\* Policies handed to mux_subtitles_advanced: every combination of the three
\* switches, with and without the relabelling flag, and the empty dict
MuxPolicies ==
    {[keep_existing_subs |-> k, add_fan_subs |-> f, add_bb_subs |-> b] :
        k \in BOOLEAN, f \in BOOLEAN, b \in BOOLEAN}
      \cup {[keep_existing_subs |-> k, add_fan_subs |-> f, add_bb_subs |-> b,
             rename_existing_bb_track |-> TRUE] :
               k \in BOOLEAN, f \in BOOLEAN, b \in BOOLEAN}
      \cup {NoOverrides}

\* How the ffmpeg run ends, and whether a failed run leaves a file behind
MuxEnds ==
    {[mux |-> "ok", partial |-> FALSE], [mux |-> "exception", partial |-> FALSE]}
      \cup {[mux |-> o, partial |-> p] : o \in {"nonzero", "timeout"}, p \in BOOLEAN}

InitMux ==
    /\ CONFIG = DefaultConfig
    /\ \E subs \in EmbeddedSubs :
          season_dir = [n \in {MuxVideo} |-> Container(MuxVideo, subs)]
    /\ fan_subs_dir = {}
    /\ bb_subs_dir = {}
    /\ \E present \in SUBSET {MuxFanSynced, MuxBBSynced} : temp_dir = Sidecars(present)
    /\ pc = "calls"
    /\ video_files = << >>
    /\ success_count = 0
    /\ fail_count = 0
    /\ last = Idle

CallMux ==
    /\ pc = "calls"
    /\ last = Idle
    /\ \E fan_sub_path \in {None, MuxFanSynced}, bb_sub_path \in {None, MuxBBSynced},
          ep_config \in MuxPolicies, end \in MuxEnds :
          LET m == mux_subtitles_advanced(MuxVideo, fan_sub_path, bb_sub_path,
                                          MuxTempOutput, ep_config, CONFIG, season_dir,
                                          temp_dir, end.mux, end.partial)
          IN  /\ last' = [fn |-> "mux_subtitles_advanced",
                          fan_sub_path |-> fan_sub_path,
                          fan_exists |-> fan_sub_path \in DOMAIN temp_dir,
                          bb_sub_path |-> bb_sub_path,
                          bb_exists |-> bb_sub_path \in DOMAIN temp_dir,
                          ep_config |-> ep_config, ended |-> m.ended,
                          plan |-> m.plan, ret |-> m.ret]
              /\ temp_dir' = m.temp
    /\ UNCHANGED <<CONFIG, season_dir, fan_subs_dir, bb_subs_dir, pc, video_files,
                   success_count, fail_count>>

NextMux == CallMux \/ Return

SpecMux == InitMux /\ [][NextMux]_vars

-----------------------------------------------------------------------------
(* Properties of the mux command (SpecMux) *)

Muxed == last.fn = "mux_subtitles_advanced"

\* The indices n of the "-metadata:s:s:<n>" arguments that set the given title
TitleIndices(metadata, title) ==
    {ToInt(SubSeq(metadata[i], Len("-metadata:s:s:") + 1, Len(metadata[i]))) :
        i \in {j \in 1..(Len(metadata) - 1) : metadata[j + 1] = "title=" \o title}}

\* The 0-based position of path among the command's inputs, -1 when it is none
InputPosition(cmd, path) ==
    LET inputs == ArgsOf(cmd, "-i")
        at == {i \in 1..Len(inputs) : inputs[i] = path}
    IN  IF at = {} THEN 0 - 1 ELSE SetMin(at) - 1

\* The inputs whose subtitle stream the command maps (their 0-based positions)
MappedInputs(cmd) ==
    LET maps == ArgsOf(cmd, "-map")
    IN  {n \in 1..3 : \E i \in 1..Len(maps) : maps[i] = ToString(n) \o ":s"}

FanAdded ==
    /\ last.fan_sub_path # None
    /\ last.fan_exists
    /\ Get(last.ep_config, "add_fan_subs", TRUE)

BBAdded ==
    /\ last.bb_sub_path # None
    /\ last.bb_exists
    /\ Get(last.ep_config, "add_bb_subs", TRUE)

KeepsExisting == Get(last.ep_config, "keep_existing_subs", TRUE)

Relabels == KeepsExisting /\ Get(last.ep_config, "rename_existing_bb_track", FALSE)

\* C6: the metadata indices of new tracks start at 1 when existing tracks are
\* kept and at 0 otherwise, and go up by one per added track, fan then bb (kept,
\* fan and bb: fan 1, bb 2; not kept: fan 0, bb 1; no fan track: bb takes the
\* start index); and each added asset is mapped from the input position at
\* which it was declared, nothing else being mapped from a later input.
C6_MuxIndices ==
    Muxed
    => LET start == IF KeepsExisting THEN 1 ELSE 0
           bb_index == IF FanAdded THEN start + 1 ELSE start
           fan_at == InputPosition(last.plan.cmd, TempPath(MuxFanSynced))
           bb_at == InputPosition(last.plan.cmd, TempPath(MuxBBSynced))
       IN  /\ TitleIndices(last.plan.metadata, "Fan Subs [English]")
                = IF FanAdded THEN {start} ELSE {}
           /\ TitleIndices(last.plan.metadata, "BB Subs [English]")
                = (IF BBAdded THEN {bb_index} ELSE {}) \cup (IF Relabels THEN {0} ELSE {})
           /\ FanAdded <=> fan_at = 1
           /\ ~FanAdded => fan_at = 0 - 1
           /\ BBAdded <=> bb_at = (IF FanAdded THEN 2 ELSE 1)
           /\ ~BBAdded => bb_at = 0 - 1
           /\ MappedInputs(last.plan.cmd)
                = (IF FanAdded THEN {fan_at} ELSE {}) \cup (IF BBAdded THEN {bb_at} ELSE {})

\* C6 witness: existing tracks kept, fan and bb both added: fan at 1, bb at 2
C6_Witness ==
    /\ Muxed
    /\ KeepsExisting /\ FanAdded /\ BBAdded /\ ~Relabels
    /\ last.ret = TRUE
    /\ TitleIndices(last.plan.metadata, "Fan Subs [English]") = {1}
    /\ TitleIndices(last.plan.metadata, "BB Subs [English]") = {2}

-----------------------------------------------------------------------------
(* process_season over one season directory *)

\* Files a season directory may hold, with the subtitle streams they embed
SeasonFiles ==
    {[name |-> "[Erai-raws] Detective Conan - 0050 [1080p][Multiple Subtitle].mkv",
      subs |-> << Stream("embedded-0", "English", "eng"),
                  Stream("embedded-1", "Spanish", "spa") >>],
     [name |-> "[RAW Reghost-Fabre] Detective Conan 6.mkv", subs |-> << >>],
     [name |-> "[Fabre-RAW] Detective Conan Remastered 0150 [NetflixJP] [1080p].mkv",
      subs |-> << >>],
     [name |-> "[Crunchyroll] Detective Conan - 200 [Multi-Sub].mkv",
      subs |-> << Stream("embedded-0", "English", "eng") >>],
     [name |-> "Detective Conan 0200 [Bilibili].mkv",
      subs |-> << Stream("embedded-0", "Chinese", "chi") >>],
     [name |-> "Detective Conan Remastered 0200 [1080p].mkv",
      subs |-> << Stream("embedded-0", "Fan Subs [English]", "eng") >>],
     [name |-> "[Fabre-RAW] Detective Conan 0730 [NetflixJP] [1080p].mkv",
      subs |-> << Stream("embedded-0", "", "eng") >>],
     [name |-> "Detective Conan 0730 [Bilibili].mkv",
      subs |-> << Stream("embedded-0", "Chinese", "chi") >>],
     [name |-> "[Erai-raws] Detective Conan - 0800 [1080p][Multiple Subtitle].mkv",
      subs |-> << Stream("embedded-0", "English", "eng") >>]}

\* The season directory holding the given files
SeasonOf(files) ==
    [n \in {f.name : f \in files} |->
        Container(n, (CHOOSE f \in files : f.name = n).subs)]

\* CONFIG as loaded from the config.yaml files considered
SeasonConfigs ==
    {DefaultConfig,
     [DefaultConfig EXCEPT !.dubbed_episodes = {200}],
     [DefaultConfig EXCEPT !.skip_dubbed_episodes = TRUE, !.dubbed_episodes = {200, 730}],
     ConfigWith(OneOverride("episodes_124_723", OverrideDropExisting)),
     ConfigWith(OneOverride("episodes_724_753", OverrideRename))}

\* What the two subtitle directories hold
SeasonSubs ==
    {[fan |-> {}, bb |-> {}],
     [fan |-> {FanSubName(e) : e \in EpSamples}, bb |-> {}],
     [fan |-> {FanSubName(e) : e \in EpSamples},
      bb |-> {BBRemasteredName(e) : e \in EpSamples} \cup {BBPlainName(e) : e \in EpSamples}]}

\* How the external runs of one episode end
Envs ==
    {[sync_fan |-> sf, sync_bb |-> sb, mux |-> end.mux, partial |-> end.partial] :
        sf \in BOOLEAN, sb \in BOOLEAN, end \in MuxEnds}

Init ==
    /\ CONFIG \in SeasonConfigs
    /\ \E files \in SUBSET SeasonFiles :
          /\ Cardinality(files) \in 1..MaxFiles
          /\ season_dir = SeasonOf(files)
    /\ \E subs \in SeasonSubs :
          /\ fan_subs_dir = subs.fan
          /\ bb_subs_dir = subs.bb
    /\ temp_dir = EmptyDir
    /\ pc = "scan"
    /\ video_files = << >>
    /\ success_count = 0
    /\ fail_count = 0
    /\ last = Idle

\* "if ep_num:" of process_season
Truthy(ep_num) == ep_num # NoEpisode /\ ep_num # 0

\* Mutant: the list is left in the order the directory was read
SortedByEpisode_Unsorted(names) ==
    {order \in [1..Cardinality(names) -> names] :
        \A i, j \in DOMAIN order : i # j => order[i] # order[j]}

\* The orders video_files.sort(key=ep_num) can leave the numbered files in:
\* ascending by episode number, files of equal number in the order glob gave
SortedByEpisode(names) ==
    {order \in [1..Cardinality(names) -> names] :
        /\ \A i, j \in DOMAIN order : i # j => order[i] # order[j]
        /\ \A i, j \in DOMAIN order :
              i < j => extract_episode_number(order[i]) <= extract_episode_number(order[j])}

\* Lines 658-670: list the numbered files, sort them, stop if there are none
Scan ==
    /\ pc = "scan"
    /\ LET numbered == {n \in DOMAIN season_dir : Truthy(extract_episode_number(n))}
       IN  /\ \E order \in SortedByEpisode(numbered) :
                 video_files' = [i \in DOMAIN order |->
                                    << order[i], extract_episode_number(order[i]) >>]
           /\ pc' = IF numbered = {} THEN "done" ELSE "loop"
           /\ last' = [fn |-> "process_season",
                       unnumbered |-> (DOMAIN season_dir) \ numbered]
    /\ UNCHANGED <<CONFIG, season_dir, fan_subs_dir, bb_subs_dir, temp_dir,
                   success_count, fail_count>>

\* Lines 686-690: one turn of the loop, process_episode on the next file
ProcessNext ==
    /\ pc = "loop"
    /\ video_files # << >>
    /\ \E env \in Envs, video \in {Head(video_files)[1]}, ep_num \in {Head(video_files)[2]} :
          \E r \in {process_episode(video, ep_num, CONFIG, season_dir, temp_dir,
                                    fan_subs_dir, bb_subs_dir, env)} :
              /\ CONFIG' = r.CONFIG
              /\ season_dir' = r.season_dir
              /\ temp_dir' = r.temp_dir
              /\ success_count' = IF r.ret THEN success_count + 1 ELSE success_count
              /\ fail_count' = IF r.ret THEN fail_count ELSE fail_count + 1
              /\ last' = [fn |-> "process_episode", video |-> video, ep_num |-> ep_num,
                          source_format |-> r.source_format, ep_config |-> r.ep_config,
                          output_name |-> r.output_name, ops |-> r.ops,
                          fan_sub_original |-> r.fan_sub_original,
                          bb_sub_original |-> r.bb_sub_original,
                          mux |-> r.mux, plan |-> r.plan, ret |-> r.ret]
    /\ video_files' = Tail(video_files)
    /\ UNCHANGED <<fan_subs_dir, bb_subs_dir, pc>>

\* Line 692: the loop is over, the season's totals are logged
Finish ==
    /\ pc = "loop"
    /\ video_files = << >>
    /\ pc' = "done"
    /\ last' = [fn |-> "process_season", succeeded |-> success_count,
                failed |-> fail_count]
    /\ UNCHANGED <<CONFIG, season_dir, fan_subs_dir, bb_subs_dir, temp_dir, video_files,
                   success_count, fail_count>>

Next == Scan \/ ProcessNext \/ Finish

Spec == Init /\ [][Next]_vars

-----------------------------------------------------------------------------
(* Properties of process_episode within a season run (Spec) *)

Processed == last.fn = "process_episode"

SubtitleWork == {"locate_fan", "locate_bb", "sync_fan", "sync_bb", "mux"}

\* The step is a turn of process_season's loop: process_episode on the head
\* of video_files
ProcessStep ==
    /\ pc = "loop"
    /\ video_files # << >>
    /\ video_files' = Tail(video_files)
    /\ last'.fn = "process_episode"

MuxFailures == {"nonzero", "timeout", "exception"}

\* C7: when the ffmpeg run fails (non-zero exit, timeout or exception),
\* process_episode reports failure and the season directory is left exactly as
\* it was: the original file is still there with its content, and nothing new
\* or partial is at the canonical output path.
C7_MuxFailure ==
    [][(ProcessStep /\ last'.mux \in MuxFailures)
          => /\ last'.ret = FALSE
             /\ fail_count' = fail_count + 1
             /\ season_dir' = season_dir]_vars

\* C7 witness: a timed-out mux left a partial temp container, the episode was
\* reported failed and the original is in place
C7_Witness ==
    /\ Processed
    /\ last.mux = "timeout"
    /\ last.ret = FALSE
    /\ last.video \in DOMAIN season_dir
    /\ \E n \in DOMAIN temp_dir : temp_dir[n].kind = "mkv" /\ ~temp_dir[n].complete

\* C9: with skip_dubbed_episodes on and the episode number in dubbed_episodes,
\* process_episode does no subtitle lookup, sync or mux whatever the source and
\* the resolved policy: it renames the file to its canonical name if the name
\* differs, touches nothing else, and reports success.
C9_DubbedSkip ==
    [][(ProcessStep /\ CONFIG.skip_dubbed_episodes
           /\ Head(video_files)[2] \in CONFIG.dubbed_episodes)
          => LET video == Head(video_files)[1]
                 out == last'.output_name
             IN  /\ last'.ret = TRUE
                 /\ success_count' = success_count + 1
                 /\ last'.ops = IF video # out THEN {"rename"} ELSE {}
                 /\ temp_dir' = temp_dir
                 /\ DOMAIN season_dir' = ((DOMAIN season_dir) \ {video}) \cup {out}
                 /\ season_dir'[out] = season_dir[video]
                 /\ \A n \in (DOMAIN season_dir') \ {out} : season_dir'[n] = season_dir[n]]_vars

\* C9 witness: a flagged episode whose fan subtitles are on disk was only renamed
C9_Witness ==
    /\ Processed
    /\ CONFIG.skip_dubbed_episodes
    /\ last.ep_num \in CONFIG.dubbed_episodes
    /\ FanForm(last.ep_num) \in fan_subs_dir
    /\ Get(last.ep_config, "add_fan_subs", TRUE)
    /\ last.ops = {"rename"}
    /\ last.ret = TRUE
    /\ last.output_name \in DOMAIN season_dir

-----------------------------------------------------------------------------
(* One call of process_episode on a file found by its name *)

\* A range override that asks for a rename only
OverrideRenameOnly ==
    [rename_only |-> TRUE, keep_existing_subs |-> TRUE, add_fan_subs |-> FALSE,
     add_bb_subs |-> FALSE]

\* A range override that keeps no subtitles and asks for none
OverrideNoSubs ==
    [keep_existing_subs |-> FALSE, add_fan_subs |-> FALSE, add_bb_subs |-> FALSE]

\* CONFIG as loaded from the config.yaml files considered
EpisodeConfigs ==
    {DefaultConfig,
     [DefaultConfig EXCEPT !.skip_dubbed_episodes = TRUE, !.dubbed_episodes = {50, 200, 730}]}
      \cup {ConfigWith(OneOverride(k, OverrideDropExisting)) : k \in RangeKeys}
      \cup {ConfigWith(OneOverride(k, OverrideRenameOnly)) : k \in RangeKeys}
      \cup {ConfigWith(OneOverride("episodes_724_753", OverrideRename)),
            ConfigWith(OneOverride("episodes_124_723", OverrideNoSubs))}

\* Episode numbers in each range of get_episode_config
EpisodeSamples == {1, 50, 123, 124, 200, 724, 730, 800}

\* The file names of those episodes from which extract_episode_number gets a
\* number
EpisodeNames ==
    {n \in UNION {NamesOf(e) : e \in EpisodeSamples} : extract_episode_number(n) # NoEpisode}

InitEpisode ==
    /\ CONFIG \in EpisodeConfigs
    /\ \E n \in EpisodeNames :
          season_dir = [f \in {n} |-> Container(n, << Stream("embedded-0", "English", "eng") >>)]
    /\ \E subs \in SeasonSubs :
          /\ fan_subs_dir = subs.fan
          /\ bb_subs_dir = subs.bb
    /\ temp_dir = EmptyDir
    /\ pc = "found"
    /\ video_files = << >>
    /\ success_count = 0
    /\ fail_count = 0
    /\ last = Idle

\* process_episode(video_file, extract_episode_number(video_file.name)) on a
\* file of the directory, as both callers make the call, once the file is found
CallEpisode ==
    /\ pc = "found"
    /\ pc' = "calls"
    /\ \E env \in Envs, video \in DOMAIN season_dir :
          \E ep_num \in {extract_episode_number(video)} :
              /\ Truthy(ep_num)
              /\ \E r \in {process_episode(video, ep_num, CONFIG, season_dir, temp_dir,
                                           fan_subs_dir, bb_subs_dir, env)} :
                    /\ CONFIG' = r.CONFIG
                    /\ season_dir' = r.season_dir
                    /\ temp_dir' = r.temp_dir
                    /\ last' = [fn |-> "process_episode", video |-> video, ep_num |-> ep_num,
                                source_format |-> r.source_format, ep_config |-> r.ep_config,
                                output_name |-> r.output_name, ops |-> r.ops,
                                fan_sub_original |-> r.fan_sub_original,
                                bb_sub_original |-> r.bb_sub_original,
                                mux |-> r.mux, plan |-> r.plan, ret |-> r.ret,
                                config_before |-> CONFIG, season_before |-> season_dir,
                                temp_before |-> temp_dir]
    /\ UNCHANGED <<fan_subs_dir, bb_subs_dir, video_files, success_count, fail_count>>

NextEpisode == CallEpisode \/ Return

SpecEpisode == InitEpisode /\ [][NextEpisode]_vars

-----------------------------------------------------------------------------
(* Properties of one process_episode call (SpecEpisode) *)

\* The season directory after the file was given its canonical name and
\* nothing else was done
OnlyRenamed ==
    /\ last.ops = (IF last.video # last.output_name THEN {"rename"} ELSE {})
    /\ season_dir = Rename(last.season_before, last.video, last.output_name)
    /\ temp_dir = last.temp_before

EraiRule ==
    (Processed /\ last.source_format = "erai-raws" /\ In(last.ep_num, 1, 123))
    => /\ Get(last.ep_config, "rename_only", FALSE) = TRUE
       /\ Get(last.ep_config, "output_format", None) = "remastered"
       /\ last.output_name = RemasteredForm(last.ep_num)
       /\ OnlyRenamed
       /\ last.ret = TRUE

\* C11, as stated: an erai-raws episode in [1,123] resolves to rename_only with
\* output_format remastered whatever the overrides, and is only renamed to the
\* remastered name; an erai-raws episode above 123 is never rename-only.
C11_Stated ==
    /\ EraiRule
    /\ (Processed /\ last.source_format = "erai-raws" /\ last.ep_num > 123)
          => Get(last.ep_config, "rename_only", FALSE) = FALSE

\* C11, amended: an erai-raws episode in [1,123] resolves to rename_only with
\* output_format remastered whatever the overrides, and is only renamed to the
\* remastered name; for an erai-raws episode above 123 the resolver applies no
\* rename-only rule of its own: the policy is the range's override or default,
\* so it is rename-only exactly when the range's override sets rename_only.
C11_Amended ==
    /\ EraiRule
    /\ (Processed /\ last.source_format = "erai-raws" /\ last.ep_num > 123)
          => LET key == RangeKey(last.ep_num)
             IN  Get(last.ep_config, "rename_only", FALSE)
                   = (key \in DOMAIN last.config_before
                        /\ Get(last.config_before[key], "rename_only", FALSE))

\* C11 witness: erai-raws episode 123 under an override of its range was only
\* renamed, with fan subtitles for it on disk
C11_Witness ==
    /\ Processed
    /\ last.source_format = "erai-raws"
    /\ last.ep_num = 123
    /\ "episodes_1_123" \in DOMAIN last.config_before
    /\ FanForm(123) \in fan_subs_dir
    /\ last.ops = {"rename"}
    /\ last.ret = TRUE
    /\ RemasteredForm(123) \in DOMAIN season_dir

-----------------------------------------------------------------------------
(* Properties of a season run (Spec) *)

\* The files of a directory from whose name an episode number is extracted
Numbered(dir) == {n \in DOMAIN dir : extract_episode_number(n) \notin {NoEpisode, 0}}

Ascending(files) ==
    \A i, j \in DOMAIN files : i < j => files[i][2] <= files[j][2]

\* The scan lists every numbered file once with its number, in ascending
\* order, and reports the others without stopping
ScanLists ==
    (pc = "scan" /\ pc' # "scan")
    => /\ {video_files'[i][1] : i \in DOMAIN video_files'} = Numbered(season_dir)
       /\ Len(video_files') = Cardinality(Numbered(season_dir))
       /\ \A i \in DOMAIN video_files' :
             video_files'[i][2] = extract_episode_number(video_files'[i][1])
       /\ Ascending(video_files')
       /\ last'.unnumbered = (DOMAIN season_dir) \ Numbered(season_dir)
       /\ success_count' = 0 /\ fail_count' = 0

\* Each turn of the loop processes the first remaining file and counts it on
\* one side, and the loop goes on whatever the result
LoopTurn ==
    (pc = "loop" /\ video_files # << >> /\ video_files' # video_files)
    => /\ last'.fn = "process_episode"
       /\ last'.video = Head(video_files)[1]
       /\ last'.ep_num = Head(video_files)[2]
       /\ video_files' = Tail(video_files)
       /\ IF last'.ret
          THEN success_count' = success_count + 1 /\ fail_count' = fail_count
          ELSE success_count' = success_count /\ fail_count' = fail_count + 1
       /\ pc' = "loop"

\* The run ends only when no listed file is left
EndsWhenEmpty == (pc = "loop" /\ pc' = "done") => video_files = << >>

\* C12: a season run processes every file with an extractable episode number
\* exactly once, in ascending order of episode number, and goes on after a
\* failed episode: when the run is done success_count + fail_count is the
\* number of such files; files without a number are reported and skipped.
C12_SeasonRun ==
    /\ [][ScanLists /\ LoopTurn /\ EndsWhenEmpty]_vars
    /\ [](pc = "loop" => Ascending(video_files))
    /\ \A n \in 0..MaxFiles :
          []((pc = "scan" /\ Cardinality(Numbered(season_dir)) = n)
                => [](pc = "done" => success_count + fail_count = n))

\* C12 witness: a run over two numbered files is done with one failure and
\* one success counted
C12_Witness ==
    /\ pc = "done"
    /\ last.fn = "process_season"
    /\ "succeeded" \in DOMAIN last
    /\ last.succeeded = 1
    /\ last.failed = 1
    /\ success_count + fail_count = 2

-----------------------------------------------------------------------------
(* The mux command against the container it produces (SpecMux) *)

\* The 0-based positions of the output's subtitle streams that come from origin
PositionsOf(subs, origin) == {i - 1 : i \in {j \in 1..Len(subs) : subs[j].origin = origin}}

\* C13: whatever the policy, the number k of subtitle streams already in the
\* video and the assets given, each metadata index of the command is the
\* position its stream has in the output (kept existing streams at 0..k-1, then
\* the fan track, then the bb track), and no two labels share an index.
C13_Stated ==
    (Muxed /\ last.ended = "ok")
    => LET out == temp_dir[MuxTempOutput].subs
           k == IF KeepsExisting THEN Len(season_dir[MuxVideo].subs) ELSE 0
           fan_indices == TitleIndices(last.plan.metadata, "Fan Subs [English]")
           bb_indices == TitleIndices(last.plan.metadata, "BB Subs [English]")
                            \ (IF Relabels THEN {0} ELSE {})
       IN  /\ FanAdded => /\ PositionsOf(out, "0200.ass") = {k}
                          /\ fan_indices = {k}
           /\ BBAdded => /\ PositionsOf(out, BBPlainName(200)) = {IF FanAdded THEN k + 1 ELSE k}
                         /\ bb_indices = PositionsOf(out, BBPlainName(200))
           /\ fan_indices \cap TitleIndices(last.plan.metadata, "BB Subs [English]") = {}

-----------------------------------------------------------------------------
(* The subtitle lookup of process_episode and what follows it (SpecEpisode) *)

\* process_episode got as far as looking for subtitles: the episode was not
\* skipped as dubbed and its policy is not rename-only
ReachedLookup ==
    /\ Processed
    /\ ~(last.config_before.skip_dubbed_episodes
           /\ last.ep_num \in last.config_before.dubbed_episodes)
    /\ ~Get(last.ep_config, "rename_only", FALSE)

NoAsset == last.fan_sub_original = None /\ last.bb_sub_original = None

RequiresSubs ==
    Get(last.ep_config, "add_fan_subs", TRUE) \/ Get(last.ep_config, "add_bb_subs", TRUE)

Lookups == {"locate_fan", "locate_bb"}

\* C14: with no asset found the episode fails only if the policy asks for
\* subtitles and does not keep the existing ones, and is otherwise renamed to
\* its canonical name and not failed; with an asset found it goes on to sync
\* and mux exactly the assets found.
C14_Stated ==
    /\ (ReachedLookup /\ NoAsset)
          => IF RequiresSubs /\ ~KeepsExisting
             THEN /\ last.ret = FALSE
                  /\ season_dir = last.season_before
             ELSE /\ last.ret = TRUE
                  /\ last.ops \ Lookups = (IF last.video # last.output_name
                                           THEN {"rename"} ELSE {})
                  /\ season_dir = Rename(last.season_before, last.video, last.output_name)
    /\ (ReachedLookup /\ ~NoAsset)
          => /\ "mux" \in last.ops
             /\ "sync_fan" \in last.ops <=> last.fan_sub_original # None
             /\ "sync_bb" \in last.ops <=> last.bb_sub_original # None
             /\ ArgsOf(last.plan.cmd, "-i")
                  = << SeasonPath(last.video) >>
                      \o (IF last.fan_sub_original # None
                          THEN << TempPath(Pad4(last.ep_num) \o "_fan_synced.ass") >>
                          ELSE << >>)
                      \o (IF last.bb_sub_original # None
                          THEN << TempPath(Pad4(last.ep_num) \o "_bb_synced.srt") >>
                          ELSE << >>)

-----------------------------------------------------------------------------
(* The temp directory after process_episode (SpecEpisode) *)

\* The names process_episode gives its temporary files
TempArtifacts(ep_num) ==
    [fan |-> Pad4(ep_num) \o "_fan_synced.ass",
     bb |-> Pad4(ep_num) \o "_bb_synced.srt",
     container |-> "temp_" \o Pad4(ep_num) \o ".mkv"]

\* C15: the temporary files of an episode do not outlive it: after a
\* successful finalize the synced sidecars are deleted and the temp container
\* has been moved to the canonical path, and after a failed mux the temp
\* container temp_<ep>.mkv is gone when process_episode returns.
C15_Stated ==
    (Processed /\ "mux" \in last.ops)
    => LET t == TempArtifacts(last.ep_num)
       IN  IF last.ret
           THEN /\ {t.fan, t.bb, t.container} \cap DOMAIN temp_dir = {}
                /\ last.output_name \in DOMAIN season_dir
                /\ season_dir[last.output_name].complete
           ELSE t.container \notin DOMAIN temp_dir

-----------------------------------------------------------------------------
(* Output names read back by extract_episode_number (SpecNames) *)

\* C16: the output name of every episode, source and policy gives the episode
\* number back through extract_episode_number, so a file that has its
\* canonical name is still listed by the next run.
C16_Stated ==
    last.fn = "get_output_filename"
    => extract_episode_number(last.ret) = last.ep_num

====
